---- MODULE Spec2Model ----
(***************************************************************************)
(* Model of the Google Maps extractor (starttogetdata.py) and of the email *)
(* enrichment pass (email_scaper.py).                                      *)
(*                                                                         *)
(* Spec         : extraction sessions over the store gmaps_data.csv, on a  *)
(*                feed that only grows                                     *)
(* SpecRerender : the same sessions on a feed that may also drop cards     *)
(* SpecEnrich   : enrichment runs over gmaps_data_with_emails.csv          *)
(***************************************************************************)
EXTENDS Integers, Sequences, FiniteSets, TLC

\* ---------------------------------------------------------------- bounds
MaxCards    == 3   \* cards the feed can render in one browser session
MaxHeight   == 2   \* largest scrollHeight the feed container reports
MaxRecords  == 2   \* records with a website in the enrichment input
MaxRuns     == 2   \* invocations of the enrichment pass

\* ------------------------------------------------------ program constants
NA == "N/A"
MAX_RETRIES == 3
StallLimit  == 3   \* literal 3 in the while condition of monitor_scrolling

\* A result card as the page serves it: the name and the address text on the
\* compact card (NA: the card has no address element), and the address and
\* phone buttons of its detail pane (NA: the pane has no such button, so
\* wait_for_element returns None).
CardA == [name |-> "A", addr |-> "a1", detail |-> "a1", phone |-> "p"]
CardB == [name |-> "B", addr |-> "a2", detail |-> "d2", phone |-> NA]
Cards == {CardA, CardB}

VARIABLES
  \* persisted store (gmaps_data.csv)
  csvExists, store,
  \* GoogleMapsExtractor fields
  pc, seen_places, total_extracted, last_processed_index,
  \* locals of monitor_scrolling
  last_height, retries, no_new_results_count, processed_count,
  cards, idx, place_data, new_height,
  \* the browser: the cards rendered in the result feed, its scrollHeight
  Feed, height,
  \* history variables
  faulted, lastFault, fallback, confirmedStalls, startKeys, passN, passM,
  dispatched,
  saveRet,
  \* enrichment output file (gmaps_data_with_emails.csv)
  outExists, outRows,
  \* the enrichment process: position in main/process_websites, the input
  \* frame, the row index, results, EmailScraper.seen_emails, exit code
  epc, df, pos, results, seen_emails, exitCode,
  \* history variables of the enrichment
  runs, priorOut, candidates, fetched, inputFound

extractVars == <<csvExists, store, pc, seen_places, total_extracted,
                 last_processed_index, last_height, retries,
                 no_new_results_count, processed_count, cards, idx,
                 place_data, new_height, Feed, height, faulted,
                 lastFault, fallback, confirmedStalls, startKeys, passN,
                 passM, dispatched, saveRet>>

enrichVars == <<outExists, outRows, epc, df, pos, results, seen_emails,
                exitCode, runs, priorOut, candidates, fetched, inputFound>>

vars == <<extractVars, enrichVars>>

\* ---------------------------------------------------------------- helpers
\* len(cards) at line 192
rendered == Len(Feed)

KeyOf(r) == <<r.name, r.address>>

KeysOf(rows) == {KeyOf(rows[i]) : i \in DOMAIN rows}

IsPrefix(s, t) == Len(s) <= Len(t) /\ \A i \in DOMAIN s : s[i] = t[i]

\* setup_files runs before seen_places is bound (line 27 before line 28):
\* the first loaded row makes line 53 raise AttributeError.
SetupFilesLoadsNothing(exists, rows) == FALSE

SetupFilesRaises(exists, rows) == exists /\ Len(rows) > 0

\* line 150: key of the basic record against the in-memory set
AlreadySeen(key, seen) == key \in seen

\* line 57
NeverDuplicate(key, seen) == FALSE

IsDuplicate(key, seen) == key \in seen

\* lines 61-63: one row appended and the file closed
WriteDropped(rows, r) == rows

WriteRow(rows, r) == Append(rows, r)

\* line 65
SeenAfterAccept(seen, key) == seen \cup {key}

\* extract_basic_info, lines 81-102 (rating and reviews are read the way the
\* address is and take no part in the key)
BasicInfo(card, now) ==
  [name |-> card.name, address |-> card.addr, phone |-> NA,
   extracted_time |-> now]

\* extract_detailed_info, lines 115-124: a field whose button is found
\* overwrites the value read from the card
DetailedInfo(details, card) ==
  [name |-> details.name,
   address |-> IF card.detail # NA THEN card.detail ELSE details.address,
   phone |-> IF card.phone # NA THEN card.phone ELSE details.phone,
   extracted_time |-> details.extracted_time]

LoopCondition == retries < MAX_RETRIES /\ no_new_results_count < StallLimit

\* -------------------------------------------------------------------- Init
ExtractInit ==
  /\ csvExists = FALSE /\ store = <<>>
  /\ pc = "idle" /\ seen_places = {} /\ total_extracted = 0
  /\ last_processed_index = 0
  /\ last_height = 0 /\ retries = 0 /\ no_new_results_count = 0
  /\ processed_count = 0 /\ cards = 0 /\ idx = 0 /\ place_data = <<>>
  /\ new_height = 0
  /\ Feed = <<>> /\ height = 1
  /\ faulted = FALSE /\ lastFault = "none" /\ fallback = "none"
  /\ confirmedStalls = 0 /\ startKeys = {}
  /\ passN = -1 /\ passM = -1 /\ dispatched = <<>> /\ saveRet = "none"

EnrichInit ==
  /\ outExists = FALSE /\ outRows = <<>>
  /\ epc = "idle" /\ df = <<>> /\ pos = 0 /\ results = <<>>
  /\ seen_emails = {} /\ exitCode = -1
  /\ runs = 0 /\ priorOut = <<>>
  /\ candidates = <<>> /\ fetched = "none" /\ inputFound = FALSE

Init == ExtractInit /\ EnrichInit

locals == <<last_height, retries, no_new_results_count, processed_count,
            cards, idx, place_data, new_height>>
ghostPass == <<passN, passM, dispatched>>
fields == <<seen_places, total_extracted, last_processed_index>>
browser == <<Feed, height>>
file == <<csvExists, store>>

\* main lines 278-279: open_browser, then GoogleMapsExtractor(driver)
Construct ==
  /\ UNCHANGED enrichVars
  /\ pc = "idle"
  /\ Feed' = <<>> /\ height' = 1
  /\ faulted' = FALSE /\ lastFault' = "none" /\ fallback' = "none"
  /\ confirmedStalls' = 0 /\ saveRet' = "none"
  /\ startKeys' = KeysOf(store)
  /\ passN' = -1 /\ passM' = -1 /\ dispatched' = <<>>
  /\ IF SetupFilesRaises(csvExists, store)
       THEN /\ pc' = "crashed"
            /\ UNCHANGED <<file, fields>>
       ELSE /\ csvExists' = TRUE /\ store' = store
            /\ seen_places' = {} /\ total_extracted' = 0
            /\ last_processed_index' = 0
            /\ pc' = "constructed"
  /\ UNCHANGED locals

\* monitor_scrolling lines 179-182
MonitorStart ==
  /\ UNCHANGED enrichVars
  /\ pc = "constructed"
  /\ last_height' = 0 /\ retries' = 0 /\ no_new_results_count' = 0
  /\ processed_count' = 0
  /\ pc' = "while"
  /\ lastFault' = "none" /\ fallback' = "none"
  /\ UNCHANGED <<file, fields, cards, idx, place_data, new_height, browser,
                 faulted, confirmedStalls, startKeys, ghostPass, saveRet>>

\* line 184 false, line 249
LoopExit ==
  /\ UNCHANGED enrichVars
  /\ pc = "while" /\ ~LoopCondition
  /\ pc' = "done"
  /\ lastFault' = "none" /\ fallback' = "none"
  /\ UNCHANGED <<file, fields, locals, browser, faulted,
                 confirmedStalls, startKeys, ghostPass, saveRet>>

\* the except clause of the loop, lines 244-247
Except ==
  /\ retries' = retries + 1
  /\ pc' = "while"

\* end of the for loop body: next card, or lines 203-204 after the last one
NextCard ==
  IF idx < cards
    THEN /\ idx' = idx + 1 /\ pc' = "card"
         /\ UNCHANGED <<last_processed_index, no_new_results_count>>
    ELSE /\ last_processed_index' = cards /\ no_new_results_count' = 0
         /\ pc' = "scroll" /\ idx' = idx

\* lines 184-196 and 205-206: the feed is found, the cards are enumerated and
\* the suffix beyond last_processed_index is taken
ScanCards ==
  /\ UNCHANGED enrichVars
  /\ pc = "while" /\ LoopCondition
  /\ cards' = rendered
  /\ passN' = last_processed_index /\ passM' = rendered
  /\ dispatched' = <<>>
  /\ IF rendered > last_processed_index
       THEN /\ idx' = last_processed_index + 1 /\ pc' = "card"
            /\ UNCHANGED no_new_results_count
       ELSE /\ no_new_results_count' = no_new_results_count + 1
            /\ pc' = "scroll" /\ idx' = idx
  /\ saveRet' = "none"
  /\ lastFault' = "none" /\ fallback' = "none"
  /\ UNCHANGED <<file, fields, last_height, retries, processed_count,
                 place_data, new_height, browser, faulted,
                 confirmedStalls, startKeys>>

\* lines 186-189: wait_for_element times out and returns None; break
FeedNotFound ==
  /\ UNCHANGED enrichVars
  /\ pc = "while" /\ LoopCondition
  /\ faulted' = TRUE /\ lastFault' = "feed" /\ fallback' = "none"
  /\ pc' = "done"
  /\ UNCHANGED <<file, fields, locals, browser,
                 confirmedStalls, startKeys, ghostPass, saveRet>>

\* lines 186-192 raise something other than TimeoutException
ScanRaises ==
  /\ UNCHANGED enrichVars
  /\ pc = "while" /\ LoopCondition
  /\ faulted' = TRUE /\ lastFault' = "scan" /\ fallback' = "none"
  /\ Except
  /\ UNCHANGED <<file, fields, last_height, no_new_results_count,
                 processed_count, cards, idx, place_data, new_height,
                 browser, confirmedStalls, startKeys, ghostPass, saveRet>>

\* what extract_place_details hands back for one card (lines 141-176), as a
\* sequence: <<>> for None, <<record>> otherwise.  basicOk: extract_basic_info
\* returned a record; clickOk: card.click() did not raise; now: the reading
\* of the clock at line 82.  extract_detailed_info catches everything it
\* raises and line 158 has bound its result before the back button is looked
\* for, so a failure of lines 161-163 leaves the detailed record in place.
PlaceDetailsDropsFailed(card, seen, now, basicOk, clickOk) ==
  IF ~basicOk \/ ~clickOk THEN <<>>
  ELSE LET basic == BasicInfo(card, now) IN
       IF AlreadySeen(KeyOf(basic), seen) THEN <<>>
       ELSE <<DetailedInfo(basic, card)>>

PlaceDetails(card, seen, now, basicOk, clickOk) ==
  IF ~basicOk THEN <<>>
  ELSE LET basic == BasicInfo(card, now) IN
       IF AlreadySeen(KeyOf(basic), seen) THEN <<>>
       ELSE IF ~clickOk THEN <<basic>>
       ELSE <<DetailedInfo(basic, card)>>

\* lines 165-170: the handler of the click, read and back sequence looks for
\* the back button once more; whatever that raises is swallowed
Fallback(failed, fallbackOk) ==
  IF ~failed THEN "none" ELSE IF fallbackOk THEN "ok" ELSE "failed"

\* line 198 for the card at idx, then line 199.  The clock only moves
\* forward, so the card's position stands for the time it is read at.
\* backOk: the back button of lines 161-163 was found and clicked.
ExtractPlaceDetails ==
  /\ UNCHANGED enrichVars
  /\ pc = "card"
  /\ \E basicOk, clickOk, backOk, fallbackOk \in BOOLEAN :
       LET card == Feed[idx]
           clicked == basicOk
                      /\ ~AlreadySeen(KeyOf(BasicInfo(card, idx)), seen_places)
           failed == clicked /\ (~clickOk \/ ~backOk)
           res == PlaceDetails(card, seen_places, idx, basicOk, clickOk)
       IN /\ ~clicked => clickOk
          /\ ~(clicked /\ clickOk) => backOk
          /\ ~failed => fallbackOk
          /\ lastFault' = IF ~basicOk THEN "basic"
                          ELSE IF ~clickOk THEN "click"
                          ELSE IF ~backOk THEN "back" ELSE "none"
          /\ fallback' = Fallback(failed, fallbackOk)
          /\ faulted' = (faulted \/ ~basicOk \/ ~clickOk \/ ~backOk)
          /\ dispatched' = Append(dispatched, idx)
          /\ IF res = <<>>
               THEN /\ place_data' = <<>> /\ NextCard
               ELSE /\ place_data' = res /\ pc' = "save" /\ idx' = idx
                    /\ UNCHANGED <<last_processed_index,
                                   no_new_results_count>>
  /\ saveRet' = "none"
  /\ UNCHANGED <<file, seen_places, total_extracted, last_height, retries,
                 processed_count, cards, new_height, browser,
                 confirmedStalls, startKeys, passN, passM>>

\* save_place lines 56-59: the key is already in seen_places
SavePlaceDuplicate ==
  /\ UNCHANGED enrichVars
  /\ pc = "save"
  /\ IsDuplicate(KeyOf(place_data[1]), seen_places)
  /\ saveRet' = "false"
  /\ NextCard
  /\ lastFault' = "none" /\ fallback' = "none"
  /\ UNCHANGED <<file, seen_places, total_extracted, last_height, retries,
                 processed_count, cards, place_data, new_height, browser,
                 faulted, confirmedStalls, startKeys, ghostPass>>

\* save_place lines 61-63: the row is appended and the file closed
SavePlaceWrite ==
  /\ UNCHANGED enrichVars
  /\ pc = "save"
  /\ ~IsDuplicate(KeyOf(place_data[1]), seen_places)
  /\ store' = WriteRow(store, place_data[1])
  /\ pc' = "commit"
  /\ lastFault' = "none" /\ fallback' = "none"
  /\ UNCHANGED <<csvExists, fields, locals, browser, faulted,
                 confirmedStalls, startKeys, ghostPass, saveRet>>

\* save_place line 61: open() raises; the exception leaves the for loop and
\* is caught at line 244
SavePlaceRaises ==
  /\ UNCHANGED enrichVars
  /\ pc = "save"
  /\ ~IsDuplicate(KeyOf(place_data[1]), seen_places)
  /\ faulted' = TRUE /\ lastFault' = "append" /\ fallback' = "none"
  /\ saveRet' = "raised"
  /\ Except
  /\ UNCHANGED <<file, fields, last_height, no_new_results_count,
                 processed_count, cards, idx, place_data, new_height,
                 browser, confirmedStalls, startKeys, ghostPass>>

\* save_place lines 65-68, then line 201
SavePlaceCommit ==
  /\ UNCHANGED enrichVars
  /\ pc = "commit"
  /\ seen_places' = SeenAfterAccept(seen_places, KeyOf(place_data[1]))
  /\ total_extracted' = total_extracted + 1
  /\ saveRet' = "true"
  /\ processed_count' = processed_count + 1
  /\ NextCard
  /\ lastFault' = "none" /\ fallback' = "none"
  /\ UNCHANGED <<file, last_height, retries, cards, place_data, new_height,
                 browser, faulted, confirmedStalls, startKeys,
                 ghostPass>>

\* the history of the scan pass is kept until control is past line 206
PassOver == passN' = -1 /\ passM' = -1 /\ dispatched' = <<>>

\* lines 209-226 and 240-242: scroll, pause, read scrollHeight
Scroll ==
  /\ UNCHANGED enrichVars
  /\ pc = "scroll"
  /\ new_height' = height
  /\ IF height = last_height
       THEN /\ pc' = "wait"
            /\ UNCHANGED <<last_height, retries, confirmedStalls>>
       ELSE /\ last_height' = height /\ retries' = 0
            /\ confirmedStalls' = 0
            /\ pc' = "while"
  /\ saveRet' = "none"
  /\ lastFault' = "none" /\ fallback' = "none"
  /\ PassOver
  /\ UNCHANGED <<file, fields, no_new_results_count, processed_count, cards,
                 idx, place_data, browser, faulted, startKeys>>

\* lines 228-239: the long wait, then scrollHeight is read again
StallCheck ==
  /\ UNCHANGED enrichVars
  /\ pc = "wait"
  /\ IF height = new_height
       THEN /\ no_new_results_count' = no_new_results_count + 1
            /\ confirmedStalls' = IF confirmedStalls < StallLimit
                                    THEN confirmedStalls + 1
                                    ELSE confirmedStalls
            /\ UNCHANGED <<last_height, retries>>
       ELSE /\ last_height' = height /\ retries' = 0
            /\ confirmedStalls' = 0
            /\ UNCHANGED no_new_results_count
  /\ pc' = "while"
  /\ lastFault' = "none" /\ fallback' = "none"
  /\ UNCHANGED <<file, fields, processed_count, cards, idx, place_data,
                 new_height, browser, faulted, startKeys,
                 ghostPass, saveRet>>

\* an execute_script call of lines 209-233 raises
ScrollRaises ==
  /\ UNCHANGED enrichVars
  /\ pc \in {"scroll", "wait"}
  /\ faulted' = TRUE /\ lastFault' = "scroll" /\ fallback' = "none"
  /\ Except
  /\ UNCHANGED <<file, fields, last_height, no_new_results_count,
                 processed_count, cards, idx, place_data, new_height,
                 browser, confirmedStalls, startKeys, saveRet>>
  /\ PassOver

\* The browser is opaque: between two reads it may render more cards and the
\* container may grow.  The session reads the card list only at line 192 and
\* scrollHeight only at lines 221 and 230, so the changes are taken right
\* before the read that observes them.
FeedRenders ==
  /\ UNCHANGED enrichVars
  /\ pc = "while"
  /\ Len(Feed) < MaxCards
  /\ \E card \in Cards : Feed' = Append(Feed, card)
  /\ lastFault' = "none" /\ fallback' = "none"
  /\ UNCHANGED <<file, pc, fields, locals, height, faulted, confirmedStalls,
                 startKeys, ghostPass, saveRet>>

HeightGrows ==
  /\ UNCHANGED enrichVars
  /\ pc \in {"scroll", "wait"}
  /\ height < MaxHeight
  /\ height' = height + 1
  /\ lastFault' = "none" /\ fallback' = "none"
  /\ UNCHANGED <<file, pc, fields, locals, Feed, faulted, confirmedStalls,
                 startKeys, ghostPass, saveRet>>

\* the process is gone: nothing of the session outlives it but the file
ProcessGone ==
  /\ pc' = "idle" /\ seen_places' = {} /\ total_extracted' = 0
  /\ last_processed_index' = 0
  /\ last_height' = 0 /\ retries' = 0 /\ no_new_results_count' = 0
  /\ processed_count' = 0 /\ cards' = 0 /\ idx' = 0 /\ place_data' = <<>>
  /\ new_height' = 0
  /\ Feed' = <<>> /\ height' = 1
  /\ faulted' = FALSE /\ lastFault' = "none" /\ fallback' = "none"
  /\ confirmedStalls' = 0 /\ startKeys' = {}
  /\ passN' = -1 /\ passM' = -1 /\ dispatched' = <<>> /\ saveRet' = "none"
  /\ UNCHANGED file

\* main lines 283-287 after monitor_scrolling returned, or the traceback of
\* a constructor that raised
Exit ==
  /\ UNCHANGED enrichVars
  /\ pc \in {"done", "crashed"}
  /\ ProcessGone

\* main lines 284-287: the user interrupts the process between two steps
Interrupt ==
  /\ UNCHANGED enrichVars
  /\ pc \in {"constructed", "while", "card", "save", "commit", "scroll",
             "wait"}
  /\ ProcessGone

Next ==
  \/ Construct \/ MonitorStart \/ LoopExit
  \/ ScanCards \/ FeedNotFound \/ ScanRaises
  \/ ExtractPlaceDetails
  \/ SavePlaceDuplicate \/ SavePlaceWrite \/ SavePlaceRaises
  \/ SavePlaceCommit
  \/ Scroll \/ StallCheck \/ ScrollRaises
  \/ FeedRenders \/ HeightGrows
  \/ Exit \/ Interrupt

Spec == Init /\ [][Next]_vars

\* find_elements at line 192 returns the cards in the document when it is
\* called; a page that re-renders its list may hold fewer of them than it did
\* at the scan before.  The page drops a card only once the session has
\* dispatched every card it shows.
FeedRerenders ==
  /\ UNCHANGED enrichVars
  /\ pc = "while"
  /\ Len(Feed) > 0 /\ last_processed_index = Len(Feed)
  /\ Feed' = SubSeq(Feed, 1, Len(Feed) - 1)
  /\ lastFault' = "none" /\ fallback' = "none"
  /\ UNCHANGED <<file, pc, fields, locals, height, faulted, confirmedStalls,
                 startKeys, ghostPass, saveRet>>

NextRerender == Next \/ FeedRerenders

\* extraction sessions on a page whose card list may also shrink
SpecRerender == Init /\ [][NextRerender]_vars

\* ------------------------------------------------------------ enrichment
\* records of the input frame (only rows with a website reach the loop,
\* line 114)
Rec1 == [name |-> "A", website |-> "w1"]
Rec2 == [name |-> "B", website |-> "w2"]
Records == {Rec1, Rec2}

Inputs == UNION {[1..n -> Records] : n \in 0..MaxRecords}

\* re.findall(email_pattern, response.text) for the page of each website
FoundEmails(website) ==
  IF website = "w1" THEN <<"sales@site.com", "sales@SITE.com">>
  ELSE <<"Info@X.org", "sales@SITE.com", "logo@2x.png">>

\* normalize_email, line 23: email.lower().strip()
Lower(email) ==
  CASE email = "sales@SITE.com" -> "sales@site.com"
    [] email = "Info@X.org" -> "info@x.org"
    [] OTHER -> email

\* lines 52-56: the second test of the filter (the first holds of every match
\* of the pattern, whose domain part contains a dot)
IsImageName(email) == Lower(email) \in {"logo@2x.png"}

RECURSIVE ValidEmails(_)
ValidEmails(found) ==
  IF found = <<>> THEN <<>>
  ELSE IF IsImageName(Head(found)) THEN ValidEmails(Tail(found))
  ELSE <<Head(found)>> \o ValidEmails(Tail(found))

\* scrape_email_from_website lines 42-43 and 61-64: the request raised, the
\* handler logs it and the empty list is returned; process_emails (line 59)
\* was not reached
ScrapeFailed(seen) == [kept |-> <<>>, seen |-> seen]

\* process_emails with is_unique_email, lines 25-39: the kept list and the
\* grown set
RECURSIVE ProcessEmailsKeepsNormalized(_, _)
RECURSIVE ProcessEmails(_, _)
ProcessEmailsKeepsNormalized(emails, seen) ==
  IF emails = <<>> THEN [kept |-> <<>>, seen |-> seen]
  ELSE IF Lower(Head(emails)) \in seen
         THEN ProcessEmailsKeepsNormalized(Tail(emails), seen)
         ELSE LET rest == ProcessEmailsKeepsNormalized(Tail(emails),
                                        seen \cup {Lower(Head(emails))})
              IN [kept |-> <<Lower(Head(emails))>> \o rest.kept,
                  seen |-> rest.seen]

ProcessEmails(emails, seen) ==
  IF emails = <<>> THEN [kept |-> <<>>, seen |-> seen]
  ELSE IF Lower(Head(emails)) \in seen
         THEN ProcessEmails(Tail(emails), seen)
         ELSE LET rest == ProcessEmails(Tail(emails),
                                        seen \cup {Lower(Head(emails))})
              IN [kept |-> <<Head(emails)>> \o rest.kept, seen |-> rest.seen]

\* line 85: the emails cell of a row, as the list of the joined addresses;
\* <<NA>> is the cell 'N/A'
EmailsCellBlank(emails) == emails

EmailsCell(emails) == IF emails = <<>> THEN <<NA>> ELSE emails

\* lines 70-77: read_csv reads the cell 'N/A' as NaN, which dropna removes;
\* every other cell is split at ', ' and each part normalized
PreloadsNothing(exists, rows) == {}

PreloadedEmails(exists, rows) ==
  IF ~exists THEN {}
  ELSE UNION {IF rows[i].emails = <<NA>> THEN {}
              ELSE {Lower(rows[i].emails[k]) : k \in DOMAIN rows[i].emails}
              : i \in DOMAIN rows}

\* line 95: to_csv without mode rewrites the file with the rows of this run
FinalRows(rows, res) == res

\* main lines 106-118: the input is read; a missing file raises inside the
\* try, line 124 prints the error and main returns
EnrichMain ==
  /\ UNCHANGED extractVars
  /\ epc \in {"idle", "exited"} /\ runs < MaxRuns
  /\ runs' = runs + 1
  /\ \/ /\ epc' = "exited" /\ exitCode' = 0
        /\ inputFound' = FALSE
        /\ UNCHANGED <<df, seen_emails>>
     \/ \E d \in Inputs :
          /\ df' = d /\ seen_emails' = {}
          /\ inputFound' = TRUE
          /\ epc' = "start" /\ exitCode' = -1
  /\ candidates' = <<>> /\ fetched' = "none"
  /\ UNCHANGED <<outExists, outRows, pos, results, priorOut>>

\* process_websites lines 67-77
ProcessWebsitesStart ==
  /\ UNCHANGED extractVars
  /\ epc = "start"
  /\ results' = <<>>
  /\ seen_emails' = seen_emails \cup PreloadedEmails(outExists, outRows)
  /\ priorOut' = outRows
  /\ pos' = 0
  /\ epc' = "loop"
  /\ UNCHANGED <<outExists, outRows, df, exitCode, runs, candidates, fetched,
                 inputFound>>

\* process_websites lines 79-91 for one row, with
\* scrape_email_from_website (41-64) and save_row_to_csv (97-103)
ProcessRow ==
  /\ UNCHANGED extractVars
  /\ epc = "loop" /\ pos < Len(df)
  /\ \E fetchOk \in BOOLEAN :
       LET row == df[pos + 1]
           valid == IF fetchOk THEN ValidEmails(FoundEmails(row.website))
                    ELSE <<>>
           res == IF fetchOk THEN ProcessEmails(valid, seen_emails)
                  ELSE ScrapeFailed(seen_emails)
           new_row == [name |-> row.name, website |-> row.website,
                       emails |-> EmailsCell(res.kept)]
       IN /\ seen_emails' = res.seen
          /\ results' = Append(results, new_row)
          /\ outRows' = Append(outRows, new_row)
          /\ outExists' = TRUE
          /\ candidates' = candidates \o valid
          /\ fetched' = IF fetchOk THEN "ok" ELSE "failed"
  /\ pos' = pos + 1
  /\ UNCHANGED <<epc, df, exitCode, runs, priorOut, inputFound>>

\* process_websites lines 93-95
FinalSave ==
  /\ UNCHANGED extractVars
  /\ epc = "loop" /\ pos = Len(df)
  /\ outRows' = FinalRows(outRows, results)
  /\ outExists' = TRUE
  /\ epc' = "finished"
  /\ fetched' = "none"
  /\ UNCHANGED <<df, pos, results, seen_emails, exitCode, runs, priorOut,
                 candidates, inputFound>>

\* main line 121, then the process ends
EnrichExit ==
  /\ UNCHANGED extractVars
  /\ epc = "finished"
  /\ epc' = "exited" /\ exitCode' = 0
  /\ fetched' = "none"
  /\ UNCHANGED <<outExists, outRows, df, pos, results, seen_emails, runs,
                 priorOut, candidates, inputFound>>

\* the user interrupts the run; KeyboardInterrupt is not an Exception, so
\* line 123 does not catch it and the interpreter ends on SIGINT
EnrichInterrupt ==
  /\ UNCHANGED extractVars
  /\ epc \in {"start", "loop", "finished"}
  /\ epc' = "exited" /\ exitCode' = 130
  /\ fetched' = "none"
  /\ UNCHANGED <<outExists, outRows, df, pos, results, seen_emails, runs,
                 priorOut, candidates, inputFound>>

EnrichNext ==
  \/ EnrichMain \/ ProcessWebsitesStart \/ ProcessRow \/ FinalSave
  \/ EnrichExit \/ EnrichInterrupt

\* the extractor is at rest while the enrichment pass runs
InitEnrich == Init /\ pc = "idle"

SpecEnrich == InitEnrich /\ [][EnrichNext]_vars

\* ------------------------------------------------------------------ claims

\* keys of the cards rendered in this browser session, as the compact card
\* shows them
RenderedKeys == {<<Feed[i].name, Feed[i].addr>> : i \in 1..rendered}

\* the rendered cards have pairwise distinct keys, and the detail pane shows
\* the address the card shows
RenderedDistinctAndStable ==
  /\ \A i, j \in 1..rendered :
       i # j => <<Feed[i].name, Feed[i].addr>> # <<Feed[j].name, Feed[j].addr>>
  /\ \A i \in 1..rendered : Feed[i].detail \in {NA, Feed[i].addr}

\* C1: the persisted store never holds two rows with the same identity key
\* (name, address), whatever the restarts and feed contents were.
C1_NoDuplicateRows ==
  \A i, j \in DOMAIN store : i # j => KeyOf(store[i]) # KeyOf(store[j])

\* a place rendered twice has been dispatched twice in one session, and its
\* row is in the store
C1_Witness ==
  /\ \E i, j \in 1..last_processed_index :
       /\ i < j /\ Feed[i] = Feed[j]
       /\ \E r \in DOMAIN store : store[r].name = Feed[i].name

\* C2: a session started on a store holding the keys P, with a feed of
\* pairwise distinct keys K, runs to Done (its construction does not fail),
\* accepts exactly |K \ P| records and ends with SeenSet = P \cup K.
C2_FreshSessionAcceptsNewKeys ==
  /\ pc # "crashed"
  /\ (pc = "done" /\ ~faulted /\ last_processed_index = rendered
        /\ RenderedDistinctAndStable)
       => /\ total_extracted = Cardinality(RenderedKeys \ startKeys)
          /\ seen_places = startKeys \cup RenderedKeys

\* C3: constructing a session on the persisted store succeeds and yields a
\* SeenSet equal to the set of identity keys of the persisted rows.
C3_LoadYieldsStoredKeys ==
  /\ pc # "crashed"
  /\ pc = "constructed" => seen_places = KeysOf(store)

\* C4: save_place is idempotent per key.  A call with a key already in
\* SeenSet returns false and changes neither the store, SeenSet nor the
\* accepted count; a call with a new key writes exactly one row, then adds
\* the key to SeenSet, adds one to the accepted count and returns true.
C4_AppendIdempotent ==
  [][ /\ (pc = "save" /\ KeyOf(place_data[1]) \in seen_places /\ pc' # "idle")
        => /\ saveRet' = "false"
           /\ UNCHANGED <<store, seen_places, total_extracted>>
      /\ (pc = "save" /\ KeyOf(place_data[1]) \notin seen_places
            /\ pc' = "commit")
        => /\ store' = Append(store, place_data[1])
           /\ UNCHANGED <<seen_places, total_extracted>>
      /\ (pc = "commit" /\ pc' # "idle")
        => /\ saveRet' = "true"
           /\ KeyOf(place_data[1]) \notin seen_places
           /\ seen_places' = seen_places \cup {KeyOf(place_data[1])}
           /\ total_extracted' = total_extracted + 1
           /\ store' = store
    ]_vars

\* save_place has just refused a record whose key is stored with another
\* extraction time
C4_Witness ==
  /\ saveRet = "false"
  /\ \E r \in DOMAIN store :
       /\ KeyOf(store[r]) = KeyOf(place_data[1])
       /\ store[r] # place_data[1]
  /\ Len(store) = total_extracted

\* C5: in a session with no exceptions the loop is not Done before 3
\* consecutive confirmed stalls without height growth in between.
C5_DoneOnlyAfterThreeStalls ==
  (pc = "done" /\ ~faulted) => confirmedStalls >= 3

\* C6: after 3 consecutive confirmed stalls no further iteration is started,
\* whether or not the scans of those iterations found new cards.
C6_ThreeStallsEndTheLoop ==
  pc \in {"card", "save", "commit", "scroll", "wait"} => confirmedStalls < 3

\* C7: a scan pass that found m cards with n already dispatched has, when
\* control leaves it, dispatched exactly the cards n+1..m (indices from 1)
\* in feed order and left last_processed_index = m.
C7_PassDispatchesNewSuffix ==
  ((pc = "scroll" \/ lastFault = "append") /\ passN >= 0 /\ passM >= passN)
    => /\ dispatched = [k \in 1..(passM - passN) |-> passN + k]
       /\ last_processed_index = passM

\* C8: rows are never removed from the store, and every key in SeenSet and
\* every counted acceptance already has its row in the store, at every step
\* including an interruption.
C8_AcceptedAlreadyPersisted ==
  [][ /\ IsPrefix(store, store')
      /\ seen_places' \subseteq KeysOf(store')
      /\ total_extracted' <= Len(store')
    ]_vars

\* a record was accepted earlier and the row of the card in flight is
\* written but not yet counted
C8_Witness ==
  /\ pc = "commit" /\ total_extracted >= 1
  /\ KeyOf(place_data[1]) \in KeysOf(store) \ seen_places

\* C9: a failure while one card is processed (extraction or append) leaves
\* the error counter alone and the pass goes on: the next card is dispatched
\* or the cursor advances to the end of the pass.
C9_CardFailureConfined ==
  [][ (pc \in {"card", "save"} /\ lastFault' \in {"basic", "click", "append"})
        => /\ retries' = retries
           /\ pc' \in {"card", "save", "scroll"}
           /\ pc' = "scroll" => last_processed_index' = cards
    ]_vars

\* C10: an enrichment run only appends to its output file: the rows the file
\* held when the run started are still its first rows, unchanged, while the
\* run goes on and after it completed, and every record processed so far has
\* its row behind them.
C10_EnrichmentOnlyAppends ==
  epc \in {"loop", "finished"}
    => /\ IsPrefix(priorOut, outRows)
       /\ Len(outRows) = Len(priorOut) + pos

\* the addresses of the emails cells of rows, in row order ('N/A' is not an
\* address)
RECURSIVE AddressesOf(_)
AddressesOf(rows) ==
  IF rows = <<>> THEN <<>>
  ELSE (IF Head(rows).emails = <<NA>> THEN <<>> ELSE Head(rows).emails)
       \o AddressesOf(Tail(rows))

\* the normalized addresses the output file held when the run started
PriorAddresses ==
  {Lower(AddressesOf(priorOut)[k]) : k \in DOMAIN AddressesOf(priorOut)}

\* positions of c holding the first occurrence of a normalized address that
\* is not in known
FirstPositions(c, known) ==
  {i \in DOMAIN c : /\ Lower(c[i]) \notin known
                    /\ \A j \in 1..(i - 1) : Lower(c[j]) # Lower(c[i])}

\* the subsequence of c at the positions P
Pick(c, P) ==
  LET F[i \in 0..Len(c)] ==
        IF i = 0 THEN <<>>
        ELSE IF i \in P THEN Append(F[i - 1], c[i]) ELSE F[i - 1]
  IN F[Len(c)]

\* C11 as stated: over the candidates handed to process_emails in one run,
\* the kept addresses are exactly the first occurrence of each distinct
\* normalized address, in first-seen order and in their original spelling.
C11_OneEntryPerAddress ==
  epc \in {"loop", "finished"}
    => AddressesOf(results) = Pick(candidates, FirstPositions(candidates, {}))

\* C11 amended: the kept addresses are exactly the first occurrence of each
\* distinct normalized address that the output file did not already hold when
\* the run started, in first-seen order and in their original spelling; an
\* address the file already held is kept by no row of the run.
C11_OneEntryPerNewAddress ==
  epc \in {"loop", "finished"}
    => AddressesOf(results)
         = Pick(candidates, FirstPositions(candidates, PriorAddresses))

\* two spellings of one address were candidates, one of them lower case only
\* after normalization, and the first spelling is the one kept
C11_Witness ==
  /\ epc = "loop"
  /\ \E i, j \in DOMAIN candidates :
       /\ i < j /\ candidates[i] # candidates[j]
       /\ Lower(candidates[i]) = Lower(candidates[j])
       /\ \E k \in DOMAIN AddressesOf(results) :
            AddressesOf(results)[k] = candidates[i]
  /\ \E k \in DOMAIN AddressesOf(results) :
       Lower(AddressesOf(results)[k]) # AddressesOf(results)[k]

\* C12: in a run over an existing output file every address of the prior
\* output is in the duplicate-check set before the first record is processed
\* (and stays there), no row emitted by the run holds an address whose
\* normalized form the prior output held, and over the prior rows and the
\* rows of the run no normalized address occurs twice.
C12_PriorAddressesNeverRewritten ==
  epc \in {"loop", "finished"}
    => LET new == AddressesOf(results)
           all == AddressesOf(priorOut \o results)
       IN /\ PriorAddresses \subseteq seen_emails
          /\ \A k \in DOMAIN new : Lower(new[k]) \notin PriorAddresses
          /\ \A i, j \in DOMAIN all :
               i # j => Lower(all[i]) # Lower(all[j])

\* a run over a file that held an address: a page offered that address again,
\* in another spelling, next to a new one, and only the new one was written
C12_Witness ==
  /\ epc = "loop" /\ pos >= 1
  /\ \E k \in DOMAIN candidates :
       /\ Lower(candidates[k]) \in PriorAddresses
       /\ candidates[k] # Lower(candidates[k])
  /\ AddressesOf(results) # <<>>

\* C13: a record whose website cannot be fetched is still emitted, with the
\* emails value 'N/A', and leaves the duplicate-check set as it was; the
\* batch goes on: every record up to the current one has its row, and the
\* batch ends only with a row for every record.
C13_FetchFailureKeepsBatch ==
  [][ /\ (epc = "loop" /\ pos' = pos + 1 /\ fetched' = "failed")
        => LET row == [name |-> df[pos + 1].name,
                       website |-> df[pos + 1].website,
                       emails |-> <<NA>>]
           IN /\ results' = Append(results, row)
              /\ outRows' = Append(outRows, row)
              /\ seen_emails' = seen_emails
              /\ epc' = "loop"
      /\ epc' = "loop" => Len(results') = pos'
      /\ epc' = "finished" => Len(results') = Len(df')
    ]_vars

\* the first fetch of a fresh run failed, its row reads 'N/A', and the second
\* record was fetched and its addresses written
C13_Witness ==
  /\ epc = "loop" /\ pos = 2 /\ fetched = "ok" /\ priorOut = <<>>
  /\ candidates = ValidEmails(FoundEmails(df[2].website))
  /\ results[1].emails = <<NA>>
  /\ results[2].emails # <<NA>>

\* C14: a run started on a missing input file ends with a non-zero exit code
\* and has written nothing; exit code 0 is only reached by a run that
\* completed, normally or on the user's interruption.
C14_MissingInputExitsNonZero ==
  /\ (epc = "exited" /\ runs > 0 /\ ~inputFound)
       => exitCode # 0
  /\ (epc = "exited" /\ exitCode = 0) => inputFound

\* C15: during a session last_processed_index never decreases, and while a
\* scan pass runs and when it has ended it is not greater than the number of
\* cards rendered, also when the scan found fewer cards than before or no
\* new card.
C15_CursorMonotoneAndBounded ==
  [][ /\ (pc \notin {"idle", "crashed"}
          /\ pc' \notin {"idle", "crashed", "constructed"})
        => last_processed_index' >= last_processed_index
      /\ pc' \in {"card", "save", "commit", "scroll"}
        => last_processed_index' <= Len(Feed')
    ]_vars

\* C16: every iteration that raises adds one to the error counter, and every
\* iteration that completes without an exception resets it to 0, whether or
\* not the height grew; so only MAX_RETRIES consecutive failing iterations
\* end the session through the error path.
C16_CleanIterationResetsRetries ==
  [][ /\ (pc' = "while" /\ lastFault' \in {"scan", "append", "scroll"}
            /\ pc # "idle")
        => retries' = retries + 1
      /\ (pc \in {"scroll", "wait"} /\ pc' = "while" /\ lastFault' = "none")
        => retries' = 0
    ]_vars

\* C17: a single failure to find an element, the feed container at the start
\* of an iteration included, never ends the session: the session is Done
\* only with 3 consecutive confirmed stalls or with the error counter at
\* MAX_RETRIES.
C17_NotFoundIsRecoverable ==
  /\ lastFault = "feed" => pc # "done"
  /\ pc = "done"
       => confirmedStalls >= StallLimit \/ retries >= MAX_RETRIES

\* C18: extract_detailed_info runs only for a card whose basic record was
\* read and whose key is not in SeenSet; a card whose key is in SeenSet is
\* skipped without the click, read and back cycle; and a record that went
\* through detailed extraction is never refused by save_place as already
\* seen.
C18_DetailedRecordNeverRefused ==
  [][ /\ (pc = "card" /\ pc' = "save" /\ lastFault' \in {"none", "back"})
        => <<Feed[idx].name, Feed[idx].addr>> \notin seen_places
      /\ (pc = "card" /\ pc' # "idle"
            /\ <<Feed[idx].name, Feed[idx].addr>> \in seen_places)
        => /\ place_data' = <<>> /\ pc' # "save"
           /\ lastFault' \in {"none", "basic"} /\ fallback' = "none"
      /\ (pc = "save" /\ lastFault \in {"none", "back"} /\ pc' # "idle")
        => saveRet' # "false"
    ]_vars

\* C19: for a card whose basic record was read and whose key is not in
\* SeenSet, a failure of the click, of the detail read or of the back
\* navigation does not lose the record: the record read so far is returned
\* and handed to save_place, the fallback back-click is tried once, the
\* error counter is left alone, and the pass goes on whether or not the
\* fallback click succeeded.
C19_FailedNavigationKeepsRecord ==
  [][ /\ (pc = "card" /\ pc' # "idle" /\ lastFault' \in {"click", "back"})
        => LET basic == BasicInfo(Feed[idx], idx) IN
           /\ KeyOf(basic) \notin seen_places
           /\ place_data' = <<IF lastFault' = "click" THEN basic
                               ELSE DetailedInfo(basic, Feed[idx])>>
           /\ pc' = "save" /\ idx' = idx
           /\ fallback' \in {"ok", "failed"}
           /\ retries' = retries
      /\ (pc = "card" /\ pc' # "idle" /\ lastFault' \notin {"click", "back"})
        => fallback' = "none"
      /\ (pc = "save" /\ fallback # "none" /\ pc' # "idle")
        => \/ saveRet' \in {"false", "raised"}
           \/ pc' = "commit" /\ store' = Append(store, place_data[1])
      /\ (pc = "commit" /\ pc' # "idle")
        => pc' \in {"card", "scroll"}
    ]_vars

\* the click on the first card failed and its basic record was stored; on the
\* second card the back navigation failed and so did the fallback click, and
\* its detailed record is handed to save_place
C19_Witness ==
  /\ pc = "save" /\ idx = 2
  /\ lastFault = "back" /\ fallback = "failed"
  /\ place_data = <<DetailedInfo(BasicInfo(Feed[2], 2), Feed[2])>>
  /\ \E r \in DOMAIN store :
       /\ store[r] = BasicInfo(Feed[1], 1)
       /\ store[r] # DetailedInfo(BasicInfo(Feed[1], 1), Feed[1])
====
